---- MODULE Spec2Model ----
(***************************************************************************)
(* Lead engine of backend/main.py: ingestion (website, Facebook, manual,   *)
(* WhatsApp), the keyword classifier, explicit status updates with their   *)
(* lead_log audit trail, the recurring follow-up scan and the daily        *)
(* summary. Spec takes every handler and job as one step; SpecOutage lets  *)
(* the external services fail, SpecBatch runs the scan over more leads     *)
(* than one batch holds, SpecAsync splits update_status and the scan at    *)
(* their awaits, SpecNorm calls normalize_lead on its own.                 *)
(*                                                                         *)
(* The document store of backend/database.py is modelled at its interface: *)
(* a collection is a sequence of documents in insertion order, and the _id *)
(* of a lead is its position in the "lead" collection.                     *)
(*                                                                         *)
(* Texts that the code inspects character by character (message bodies,    *)
(* keywords, descriptions) are sequences of one-character strings. Other   *)
(* strings (names, phone numbers, statuses) are TLA+ strings.              *)
(* Time is counted in minutes.                                             *)
(***************************************************************************)
EXTENDS Integers, Sequences, FiniteSets, TLC

(* ------------------------------ bounds -------------------------------- *)

MaxLeads == 2
MaxLogs == 2
\* Requests handled in one behaviour.
MaxOps == 3

(* ------------------------- Python's None / "" -------------------------- *)

\* Python None in a string-valued field.
None == "<None>"
\* A key that is not in the dict at all (dict.get then yields its default).
Missing == "<missing>"
\* Python None in a datetime-valued field (all real instants are >= 0).
NoTime == -1
\* Python None in a text-valued field (a text is a sequence of characters,
\* so None is the one-element sequence holding the token None).
NoneText == <<None>>
\* A text-valued key that is not in the dict at all.
MissingText == <<Missing>>

\* bool(x) is False for None and for the empty string.
Falsy(x) == x = None \/ x = Missing \/ x = ""

\* data.get(key): None when the key is missing.
Get(x) == IF x = Missing THEN None ELSE x
GetText(x) == IF x = MissingText THEN NoneText ELSE x

\* x or y
Or(x, y) == IF Falsy(x) THEN y ELSE x

(* ------------------------------ texts ---------------------------------- *)

UpperCase == <<"A","B","C","D","E","F","G","H","I","J","K","L","M",
               "N","O","P","Q","R","S","T","U","V","W","X","Y","Z">>
LowerCase == <<"a","b","c","d","e","f","g","h","i","j","k","l","m",
               "n","o","p","q","r","s","t","u","v","w","x","y","z">>

\* The lower-case letter of each upper-case letter.
LowerOf ==
    [ c \in { UpperCase[i] : i \in 1..Len(UpperCase) } |->
        LowerCase[CHOOSE i \in 1..Len(UpperCase) : UpperCase[i] = c] ]

\* str.lower() on one character.
LowerChar(c) == IF c \in DOMAIN LowerOf THEN LowerOf[c] ELSE c

\* msg.message.lower()
Lower(text) == [i \in 1..Len(text) |-> LowerChar(text[i])]

\* k in text
Contains(text, k) ==
    \E i \in 0..(Len(text) - Len(k)) : SubSeq(text, i + 1, i + Len(k)) = k

KEYWORDS == <<
    <<"p","a","i","p">>,
    <<"w","i","r","i","n","g">>,
    <<"r","e","n","o","v","a","t","e">>,
    <<"l","e","a","k","i","n","g">>,
    <<"k","o","n","t","r","a","k","t","o","r">>,
    <<"p","l","u","m","b","e","r">>,
    <<"e","l","e","c","t","r","i","c","a","l">>,
    <<"b","u","m","b","u","n","g">> >>

\* The keyword test of ingest_whatsapp on a lowercased text, without lowering.
AnyKeywordNoLower(message) ==
    LET text == message
    IN  \E n \in 1..Len(KEYWORDS) : Contains(text, KEYWORDS[n])

\* text = msg.message.lower(); any(k in text for k in KEYWORDS)
AnyKeyword(message) ==
    LET text == Lower(message)
    IN  \E n \in 1..Len(KEYWORDS) : Contains(text, KEYWORDS[n])

(* --------------------------- configuration ----------------------------- *)

\* The built-in default of DEFAULT_ADMIN when the variable is not set.
BuiltinAdmin == "+60123456789"

\* What an environment variable can hold: unset, empty, or a contact.
EnvAssignedValues == {None, "", "+60100"}
EnvAdminValues == {None, "", "+60199"}

\* Instants of the clock, in minutes: leads are 0, 15 (the first threshold
\* exactly), 1425 (a lead that came in at 15) or 1440 (the second threshold
\* exactly) old.
Instants == {0, 15, 1440}

FIFTEEN_MINUTES == 15
DAY_MINUTES == 1440
FOLLOW_UP_LIMIT == 5000

Statuses == {"New", "In progress", "Won", "Lost"}
\* StatusUpdateIn.status is a plain str: a request can carry any string.
RequestStatuses == Statuses \cup {"Archived"}

VARIABLES
    envAssigned,    \* os.environ["DEFAULT_ASSIGNED_WHATSAPP"]
    envAdmin,       \* os.environ["DEFAULT_ADMIN_WHATSAPP"]
    now,            \* now_tz()
    leads,          \* collection "lead"
    lead_log,       \* collection "lead_log"
    sent,           \* messages passed to send_whatsapp_message by the last operation
    resp,           \* the last operation: its request and its HTTP outcome
    ops,            \* requests handled so far
    normIn,         \* argument of a direct normalize_lead call
    normOut,        \* its result: <<>> before the call, <<payload>> after
    down,           \* the external services whose calls fail at present
    sheet,          \* rows of the spreadsheet's first sheet: the ids of the leads
    log_sheet,      \* rows of the log worksheet
    errors,         \* services whose failure the last operation logged (logger.error)
    cycle,          \* parity of the scans run by the scheduler
    tasks           \* coroutines suspended at an await, with their local variables

vars == <<envAssigned, envAdmin, now, leads, lead_log, sent, resp, ops, normIn, normOut,
          down, sheet, log_sheet, errors, cycle, tasks>>

\* os.getenv(name, default)
Getenv(value, default) == IF value = None THEN default ELSE value

\* DEFAULT_ADMIN = os.getenv("DEFAULT_ADMIN_WHATSAPP", "+60123456789")
DEFAULT_ADMIN == Getenv(envAdmin, BuiltinAdmin)

(* ---------------------------- normalize_lead --------------------------- *)

\* Faulty variant: the global default admin contact is consulted before the
\* channel default.
normalize_lead_AdminFirst(data) ==
    [ name |-> Or(Get(data.name), "Unknown"),
      phone |-> Or(Get(data.phone), ""),
      description |-> GetText(data.description),
      source |-> IF data.source = Missing THEN "manual" ELSE data.source,
      timestamp |-> IF data.timestamp = NoTime THEN now ELSE data.timestamp,
      status |-> "New",
      assigned_sales_whatsapp |->
          LET assigned == Or(Get(data.assigned_sales_whatsapp), Getenv(envAdmin, DEFAULT_ADMIN))
          IN  IF ~Falsy(assigned) THEN assigned ELSE Getenv(envAssigned, None),
      last_sales_reply_at |-> NoTime ]

\* Faulty variant: the payload's name and phone are copied as they are, and the
\* payload's status and reply time are kept.
normalize_lead_Copy(data) ==
    [ name |-> Get(data.name),
      phone |-> Get(data.phone),
      description |-> GetText(data.description),
      source |-> IF data.source = Missing THEN "manual" ELSE data.source,
      timestamp |-> IF data.timestamp = NoTime THEN now ELSE data.timestamp,
      status |-> IF data.status = Missing THEN "New" ELSE data.status,
      assigned_sales_whatsapp |->
          LET assigned == Or(Get(data.assigned_sales_whatsapp), Getenv(envAssigned, None))
          IN  IF ~Falsy(assigned) THEN assigned ELSE Getenv(envAdmin, DEFAULT_ADMIN),
      last_sales_reply_at |-> data.last_sales_reply_at ]

normalize_lead(data) ==
    [ name |-> Or(Get(data.name), "Unknown"),
      phone |-> Or(Get(data.phone), ""),
      description |-> GetText(data.description),
      source |-> IF data.source = Missing THEN "manual" ELSE data.source,
      timestamp |-> IF data.timestamp = NoTime THEN now ELSE data.timestamp,
      status |-> "New",
      assigned_sales_whatsapp |->
          LET assigned == Or(Get(data.assigned_sales_whatsapp), Getenv(envAssigned, None))
          IN  IF ~Falsy(assigned) THEN assigned ELSE Getenv(envAdmin, DEFAULT_ADMIN),
      last_sales_reply_at |-> NoTime ]

(* ------------------------------ requests ------------------------------- *)

\* A dict handed to normalize_lead, before any key is set.
EmptyData ==
    [ name |-> Missing, phone |-> Missing, description |-> MissingText,
      source |-> Missing, timestamp |-> NoTime, status |-> Missing,
      assigned_sales_whatsapp |-> Missing, last_sales_reply_at |-> NoTime ]

\* Request bodies of WebhookIn (every field optional; JSON null is None).
WebhookPayloads ==
    { [name |-> "Ali", phone |-> "+60111", assigned_sales_whatsapp |-> None],
      [name |-> None, phone |-> None, assigned_sales_whatsapp |-> "+60122"] }

\* Request bodies of ManualLeadIn and ManualFormIn (name and phone required).
ManualPayloads ==
    { [name |-> "Siti", phone |-> "", assigned_sales_whatsapp |-> None] }

\* payload.model_dump(exclude_none=True): a None field is left out of the dict.
model_dump(payload) ==
    [ EmptyData EXCEPT
        !.name = IF payload.name = None THEN Missing ELSE payload.name,
        !.phone = IF payload.phone = None THEN Missing ELSE payload.phone,
        !.assigned_sales_whatsapp =
            IF payload.assigned_sales_whatsapp = None THEN Missing
            ELSE payload.assigned_sales_whatsapp ]

\* Message bodies of WhatsAppMessageIn: a keyword in upper case, and a reply
\* that holds no keyword.
Bodies ==
    { <<"P","A","I","P">>,
      <<"o","k"," ","P","a","i"," ","p">> }

\* Addresses a message is sent from, and the channel address it arrives on.
FromNumbers == {"+60122", "+60100"}
ToNumbers == {"+60122"}

\* A message is stamped when it is sent: at the start of the day, or just now.
Messages ==
    [ from_number : FromNumbers, to_number : ToNumbers, message : Bodies,
      timestamp : {0, now} ]

NoMessage ==
    [ from_number |-> None, to_number |-> None, message |-> NoneText, timestamp |-> NoTime ]

\* The record of the last operation: what was asked and what came back.
\*   code    HTTP status (200, 404 NotFound, 500 unhandled exception; 0 for a job)
\*   body    "lead" ({"ok", "lead"}), "ignored" ({"ok", "ignored"}), "ok", "error"
\*   lead_id the id in the request, or of the lead that was created (0 if none)
Outcome(op, code, body, lead_id, status, data, msg) ==
    [ op |-> op, code |-> code, body |-> body, lead_id |-> lead_id,
      status |-> status, data |-> data, msg |-> msg ]

(* --------------------------- document store ---------------------------- *)

\* A document with the keys of `update_dict` set to its values ($set).
Set(doc, update_dict) ==
    [ f \in DOMAIN doc \cup DOMAIN update_dict |->
        IF f \in DOMAIN update_dict THEN update_dict[f] ELSE doc[f] ]

\* An equality filter: every key of filter_dict has its value in the document.
Matches(doc, filter_dict) ==
    \A f \in DOMAIN filter_dict : f \in DOMAIN doc /\ doc[f] = filter_dict[f]

\* str(res.inserted_id): the id insert_one gives the next document.
InsertedId(collection) == Len(collection) + 1

\* create_document(collection, data): insert_one appends the document.
create_document(collection, data) ==
    Append(collection, Set(data, [_id |-> InsertedId(collection)]))

\* get_document(collection, filter): <<doc>> for the first match, <<>> for None.
get_document(collection, filter_dict) ==
    LET hits == SelectSeq(collection, LAMBDA doc : Matches(doc, filter_dict))
    IN  IF hits = <<>> THEN <<>> ELSE << Head(hits) >>

\* Faulty variant: update_one, only the first matching document is updated.
update_document_First(collection, filter_dict, update_dict) ==
    [ i \in 1..Len(collection) |->
        IF /\ Matches(collection[i], filter_dict)
           /\ \A j \in 1..(i - 1) : ~Matches(collection[j], filter_dict)
        THEN Set(collection[i], update_dict) ELSE collection[i] ]

\* update_document(collection, filter, update): update_many with $set on
\* every document the filter matches.
update_document(collection, filter_dict, update_dict) ==
    [ i \in 1..Len(collection) |->
        IF Matches(collection[i], filter_dict)
        THEN Set(collection[i], update_dict) ELSE collection[i] ]

\* Faulty variant: the last `limit` matching documents are returned.
get_documents_Last(collection, filter_dict, limit) ==
    LET hits == SelectSeq(collection, LAMBDA doc : Matches(doc, filter_dict))
    IN  IF Len(hits) <= limit THEN hits
        ELSE SubSeq(hits, Len(hits) - limit + 1, Len(hits))

\* get_documents(collection, filter, limit): the first `limit` matching
\* documents, in the store's natural order.
get_documents(collection, filter_dict, limit) ==
    LET hits == SelectSeq(collection, LAMBDA doc : Matches(doc, filter_dict))
    IN  IF Len(hits) <= limit THEN hits ELSE SubSeq(hits, 1, limit)

(* -------------------------- external services ------------------------- *)

\* The spreadsheet of leads, its log worksheet and the WhatsApp API.
Services == {"sheet", "log_sheet", "whatsapp"}

\* Faulty variant: the call is not wrapped, its exception reaches the caller.
Guarded_Bare(service) ==
    [ done |-> service \notin down, logged |-> {}, raised |-> service \in down ]

\* try: <call> except Exception as e: logger.error(...): the call is done or
\* its failure is logged; nothing is raised to the caller.
Guarded(service) ==
    [ done |-> service \notin down,
      logged |-> IF service \in down THEN {service} ELSE {},
      raised |-> FALSE ]

\* A call that is not made.
NoCall == [ done |-> FALSE, logged |-> {}, raised |-> FALSE ]

\* _append_to_sheet(row)
_append_to_sheet == Guarded("sheet")

\* _append_log(row)
_append_log == Guarded("log_sheet")

\* The requests.post call of send_whatsapp_message, with the API configured.
requests_post == Guarded("whatsapp")

\* The row _log_status_change hands to _append_log.
LogRow(lead_id, from_status, to_status) ==
    [ lead_id |-> lead_id, from_status |-> Or(from_status, ""), to_status |-> to_status ]

(* ------------------------------ notifier ------------------------------- *)

\* Faulty variant: every message goes to the default admin.
send_whatsapp_message_Admin(to_number, kind, lead_id) ==
    [ to |-> DEFAULT_ADMIN, kind |-> kind, lead_id |-> lead_id ]

\* send_whatsapp_message(to_number, message): the message as it is addressed.
send_whatsapp_message(to_number, kind, lead_id) ==
    [ to |-> IF Falsy(to_number) THEN DEFAULT_ADMIN ELSE to_number,
      kind |-> kind, lead_id |-> lead_id ]

(* ------------------------------- audit --------------------------------- *)

\* LeadLog(...) validates from_status: Optional[Status] and to_status: Status.
LeadLogValid(from_status, to_status) ==
    /\ from_status \in Statuses \cup {None}
    /\ to_status \in Statuses

LeadLog(lead_id, from_status, to_status, note) ==
    [ lead_id |-> lead_id, from_status |-> from_status, to_status |-> to_status,
      timestamp |-> now, note |-> note ]

AUTO_NOTE == "Auto follow-up task created after 24h of no response"

(* ------------------------------- state --------------------------------- *)

NoOutcome == Outcome("none", 0, "ok", 0, None, EmptyData, NoMessage)

\* The requests whose update_status coroutines may be suspended together.
Requests == {1, 2}

\* A coroutine of update_status: where it is suspended and its locals
\* lead_id, payload.status and prev; `stored` records the status its
\* update_document call replaced.
UpdateTask(pc, lead_id, status, prev, stored) ==
    [ pc |-> pc, lead_id |-> lead_id, status |-> status, prev |-> prev, stored |-> stored ]

\* The coroutine of follow_up_checks: where it is suspended and the leads
\* of its batch that its second loop still has to log.
ScanTask(pc, todo) == [ pc |-> pc, todo |-> todo ]

\* No coroutine is suspended.
NoTasks ==
    [ update |-> [ r \in Requests |-> UpdateTask("idle", 0, None, None, None) ],
      scan |-> ScanTask("idle", <<>>) ]

\* The deployments of the service: nothing configured, and a channel
\* default configured.
Deployments == { <<None, None>>, <<"+60100", None>> }

Init ==
    /\ \E env \in Deployments : envAssigned = env[1] /\ envAdmin = env[2]
    /\ now = 0
    /\ leads = <<>>
    /\ lead_log = <<>>
    /\ sent = <<>>
    /\ resp = NoOutcome
    /\ ops = 0
    /\ normIn = EmptyData
    /\ normOut = <<>>
    /\ down = {}
    /\ sheet = <<>>
    /\ log_sheet = <<>>
    /\ errors = {}
    /\ cycle = 0
    /\ tasks = NoTasks

\* One more request is handled.
Handled == ops < MaxOps /\ ops' = ops + 1

\* Time passes between two operations.
Tick ==
    /\ \E t \in Instants : t > now /\ now' = t
    /\ UNCHANGED <<envAssigned, envAdmin, down, cycle, tasks, leads, lead_log, sent, resp, ops,
                   normIn, normOut, sheet, log_sheet, errors>>

(* ------------------------------ ingestion ------------------------------ *)

\* _save_and_sheet(lead_data) followed by the handler's notification.
\* The stored lead is read back by its id; its id is its position.
SaveAndNotify(op, data, kind, msg) ==
    LET lead_data == normalize_lead(data)
        lead_id == InsertedId(leads)
        stored == create_document(leads, lead_data)
        found == get_document(stored, [_id |-> lead_id])
        lead == IF found # <<>> THEN found[1] ELSE lead_data
        row == IF found # <<>> THEN _append_to_sheet ELSE NoCall
        post == requests_post
    IN  /\ Len(leads) < MaxLeads
        /\ leads' = stored
        /\ IF row.raised
           THEN /\ sent' = <<>>
                /\ sheet' = sheet
                /\ errors' = {}
                /\ resp' = Outcome(op, 500, "error", lead_id, None, data, msg)
           ELSE /\ sent' = << send_whatsapp_message(lead.assigned_sales_whatsapp,
                                                    kind, lead_id) >>
                /\ sheet' = IF row.done THEN Append(sheet, lead._id) ELSE sheet
                /\ errors' = row.logged \cup post.logged
                /\ resp' = IF post.raised
                           THEN Outcome(op, 500, "error", lead_id, None, data, msg)
                           ELSE Outcome(op, 200, "lead", lead_id, None, data, msg)
        /\ Handled
        /\ UNCHANGED <<envAssigned, envAdmin, down, cycle, tasks, now, lead_log, log_sheet,
                       normIn, normOut>>

ingest_webhook(payload) ==
    SaveAndNotify("ingest_webhook",
                  [model_dump(payload) EXCEPT !.source = "website"],
                  "new_lead", NoMessage)

ingest_facebook(payload) ==
    SaveAndNotify("ingest_facebook",
                  [model_dump(payload) EXCEPT !.source = "facebook"],
                  "new_lead", NoMessage)

ingest_manual(payload) ==
    SaveAndNotify("ingest_manual",
                  [model_dump(payload) EXCEPT !.source = "manual"],
                  "new_lead", NoMessage)

create_lead(payload) ==
    SaveAndNotify("create_lead",
                  [model_dump(payload) EXCEPT !.source = "manual"],
                  "new_lead", NoMessage)

\* Faulty variant: the message time is written to the inquiry timestamp.
HandlerReply_Stamp(msg) ==
    /\ leads' = update_document(leads,
                    [assigned_sales_whatsapp |-> msg.from_number],
                    [timestamp |-> msg.timestamp, status |-> "In progress"])
    /\ sent' = <<>>
    /\ errors' = {}
    /\ resp' = Outcome("ingest_whatsapp", 200, "ignored", 0, None, EmptyData, msg)
    /\ Handled
    /\ UNCHANGED <<envAssigned, envAdmin, down, cycle, tasks, now, lead_log, sheet, log_sheet,
                   normIn, normOut>>

\* Faulty variant: the reply is logged as a transition of the first lead of
\* the handler.
HandlerReply_Logged(msg) ==
    LET mine == get_document(leads, [assigned_sales_whatsapp |-> msg.from_number])
    IN  /\ leads' = update_document(leads,
                        [assigned_sales_whatsapp |-> msg.from_number],
                        [last_sales_reply_at |-> msg.timestamp, status |-> "In progress"])
        /\ lead_log' = IF mine = <<>> \/ Len(lead_log) >= MaxLogs THEN lead_log
                       ELSE create_document(lead_log,
                                LeadLog(mine[1]._id, "New", "In progress", None))
        /\ sent' = <<>>
        /\ errors' = {}
        /\ resp' = Outcome("ingest_whatsapp", 200, "ignored", 0, None, EmptyData, msg)
        /\ Handled
        /\ UNCHANGED <<envAssigned, envAdmin, down, cycle, tasks, now, sheet, log_sheet,
                       normIn, normOut>>

\* The Handler Reply branch of ingest_whatsapp.
HandlerReply(msg) ==
    /\ leads' = update_document(leads,
                    [assigned_sales_whatsapp |-> msg.from_number],
                    [last_sales_reply_at |-> msg.timestamp, status |-> "In progress"])
    /\ sent' = <<>>
    /\ errors' = {}
    /\ resp' = Outcome("ingest_whatsapp", 200, "ignored", 0, None, EmptyData, msg)
    /\ Handled
    /\ UNCHANGED <<envAssigned, envAdmin, down, cycle, tasks, now, lead_log, sheet, log_sheet,
                   normIn, normOut>>

\* Faulty variant: sender and recipient are swapped.
NewWhatsAppLead_Swapped(msg) ==
    SaveAndNotify("ingest_whatsapp",
                  [ EmptyData EXCEPT !.name = None,
                                     !.phone = msg.to_number,
                                     !.description = msg.message,
                                     !.source = "whatsapp",
                                     !.timestamp = msg.timestamp,
                                     !.assigned_sales_whatsapp = msg.from_number ],
                  "new_lead", msg)

\* The New Lead branch of ingest_whatsapp.
NewWhatsAppLead(msg) ==
    SaveAndNotify("ingest_whatsapp",
                  [ EmptyData EXCEPT !.name = None,
                                     !.phone = msg.from_number,
                                     !.description = msg.message,
                                     !.source = "whatsapp",
                                     !.timestamp = msg.timestamp,
                                     !.assigned_sales_whatsapp = msg.to_number ],
                  "new_lead", msg)

ingest_whatsapp(msg) ==
    IF ~AnyKeyword(msg.message)
    THEN HandlerReply(msg)
    ELSE NewWhatsAppLead(msg)

(* ---------------------------- update_status ---------------------------- *)

\* Faulty variant: a missing lead is not rejected; its previous status reads as None.
update_status_NoCheck(lead_id, status) ==
    LET lead == get_document(leads, [_id |-> lead_id])
        prev == IF lead # <<>> THEN lead[1].status ELSE None
    IN  /\ leads' = update_document(leads, [_id |-> lead_id], [status |-> status])
        /\ sent' = <<>>
        /\ IF LeadLogValid(prev, status)
           THEN /\ Len(lead_log) < MaxLogs
                /\ lead_log' = create_document(lead_log, LeadLog(lead_id, prev, status, None))
                /\ resp' = Outcome("update_status", 200, "ok", lead_id, status,
                                   EmptyData, NoMessage)
           ELSE /\ lead_log' = lead_log
                /\ resp' = Outcome("update_status", 500, "error", lead_id, status,
                                   EmptyData, NoMessage)
        /\ Handled
        /\ UNCHANGED <<envAssigned, envAdmin, down, cycle, tasks, now, sheet, log_sheet, errors,
                       normIn, normOut>>

\* POST /lead/status. The lead's status is written first; the LeadLog entry
\* is built afterwards, and building it raises when prev or the requested
\* status is not one of the four statuses (the write is not undone).
update_status(lead_id, status) ==
    LET lead == get_document(leads, [_id |-> lead_id])
    IN  IF lead = <<>>
        THEN /\ resp' = Outcome("update_status", 404, "error", lead_id, status,
                                EmptyData, NoMessage)
             /\ sent' = <<>>
             /\ errors' = {}
             /\ Handled
             /\ UNCHANGED <<envAssigned, envAdmin, down, cycle, tasks, now, leads, lead_log,
                            sheet, log_sheet, normIn, normOut>>
        ELSE LET prev == lead[1].status
                 row == _append_log
             IN  /\ leads' = update_document(leads, [_id |-> lead_id], [status |-> status])
                 /\ sent' = <<>>
                 /\ IF LeadLogValid(prev, status)
                    THEN /\ Len(lead_log) < MaxLogs
                         /\ lead_log' = create_document(lead_log,
                                            LeadLog(lead_id, prev, status, None))
                         /\ log_sheet' = IF row.done
                                         THEN Append(log_sheet, LogRow(lead_id, prev, status))
                                         ELSE log_sheet
                         /\ errors' = row.logged
                         /\ resp' = IF row.raised
                                    THEN Outcome("update_status", 500, "error", lead_id,
                                                 status, EmptyData, NoMessage)
                                    ELSE Outcome("update_status", 200, "ok", lead_id,
                                                 status, EmptyData, NoMessage)
                    ELSE /\ lead_log' = lead_log
                         /\ log_sheet' = log_sheet
                         /\ errors' = {}
                         /\ resp' = Outcome("update_status", 500, "error", lead_id, status,
                                            EmptyData, NoMessage)
                 /\ Handled
                 /\ UNCHANGED <<envAssigned, envAdmin, down, cycle, tasks, now, sheet,
                                normIn, normOut>>

(* --------------------------- follow_up_checks -------------------------- *)

\* Faulty variant: the boundary is exclusive.
DueFifteen_Strict(lead) ==
    /\ lead.timestamp < now - FIFTEEN_MINUTES
    /\ lead.last_sales_reply_at = NoTime

\* lead.get("timestamp") <= fifteen_ago and not lead.get("last_sales_reply_at")
DueFifteen(lead) ==
    /\ lead.timestamp <= now - FIFTEEN_MINUTES
    /\ lead.last_sales_reply_at = NoTime

\* Faulty variant: the 24-hour boundary is exclusive.
DueDay_Strict(lead) ==
    /\ lead.timestamp < now - DAY_MINUTES
    /\ lead.status = "New"

\* lead.get("timestamp") <= day_ago and lead.get("status") == "New"
DueDay(lead) ==
    /\ lead.timestamp <= now - DAY_MINUTES
    /\ lead.status = "New"

\* leads = await get_documents("lead", {"status": "New"}, limit=limit)
Retrieved(limit) == get_documents(leads, [status |-> "New"], limit)

\* lead.get("assigned_sales_whatsapp") or DEFAULT_ADMIN
ScanRecipient(lead) == Or(lead.assigned_sales_whatsapp, DEFAULT_ADMIN)

\* The first loop: one reminder for each retrieved lead that is due.
Reminders(batch) ==
    LET upto[n \in 0..Len(batch)] ==
            IF n = 0 THEN <<>>
            ELSE IF DueFifteen(batch[n])
                 THEN Append(upto[n - 1],
                             send_whatsapp_message(ScanRecipient(batch[n]),
                                                   "reminder_15m", batch[n]._id))
                 ELSE upto[n - 1]
    IN  upto[Len(batch)]

\* Faulty variant: a lead that already has an automatic entry is skipped.
DayNotices_Once(batch) ==
    LET upto[n \in 0..Len(batch)] ==
            IF n = 0 THEN <<>>
            ELSE IF /\ DueDay(batch[n])
                    /\ ~\E k \in 1..Len(lead_log) :
                            /\ lead_log[k].lead_id = batch[n]._id
                            /\ lead_log[k].note = AUTO_NOTE
                 THEN Append(upto[n - 1],
                             send_whatsapp_message(ScanRecipient(batch[n]),
                                                   "follow_up_24h", batch[n]._id))
                 ELSE upto[n - 1]
    IN  upto[Len(batch)]

\* The second loop: the notifications it sends ...
DayNotices(batch) ==
    LET upto[n \in 0..Len(batch)] ==
            IF n = 0 THEN <<>>
            ELSE IF DueDay(batch[n])
                 THEN Append(upto[n - 1],
                             send_whatsapp_message(ScanRecipient(batch[n]),
                                                   "follow_up_24h", batch[n]._id))
                 ELSE upto[n - 1]
    IN  upto[Len(batch)]

\* ... and the lead_log entries it appends through _log_status_change ...
DayEntries(batch) ==
    LET upto[n \in 0..Len(batch)] ==
            IF n = 0 THEN <<>>
            ELSE IF DueDay(batch[n])
                 THEN Append(upto[n - 1],
                             Set(LeadLog(batch[n]._id, "New", "New", AUTO_NOTE),
                                 [_id |-> InsertedId(lead_log) + Len(upto[n - 1])]))
                 ELSE upto[n - 1]
    IN  upto[Len(batch)]

\* ... and the rows _log_status_change hands to _append_log.
DayRows(entries) ==
    [ n \in 1..Len(entries) |->
        LogRow(entries[n].lead_id, entries[n].from_status, entries[n].to_status) ]

\* follow_up_checks, with the limit of its get_documents call as a parameter.
ScanBatch(limit) ==
    LET batch == Retrieved(limit)
        entries == DayEntries(batch)
        messages == Reminders(batch) \o DayNotices(batch)
    IN  /\ Len(lead_log) + Len(entries) <= MaxLogs
        /\ sent' = messages
        /\ lead_log' = lead_log \o entries
        /\ log_sheet' = IF _append_log.done THEN log_sheet \o DayRows(entries) ELSE log_sheet
        /\ errors' = (IF entries # <<>> THEN _append_log.logged ELSE {})
                        \cup (IF messages # <<>> THEN requests_post.logged ELSE {})
        /\ resp' = Outcome("follow_up_checks", 0, "ok", 0, None, EmptyData, NoMessage)
        /\ UNCHANGED <<envAssigned, envAdmin, down, tasks, now, leads, sheet, ops,
                       normIn, normOut>>

\* The scheduled job: the batch is limited to 5000 leads.
follow_up_checks == ScanBatch(FOLLOW_UP_LIMIT)

(* -------------------------- daily_summary_job -------------------------- *)

SUMMARY_LEAD_LIMIT == 10000
SUMMARY_LOG_LIMIT == 100000

\* The filter {} of get_documents("lead", {}, ...): every document matches.
NoFilter == <<>>

\* Faulty variant: the status is read under a key no lead has, so every lead
\* counts under the default.
CountByStatus_WrongKey(all) ==
    LET by_status[n \in 0..Len(all)] ==
            IF n = 0 THEN [ s \in Statuses |-> 0 ]
            ELSE LET status == "New"
                     seen == by_status[n - 1]
                 IN  Set(seen, status :> (IF status \in DOMAIN seen
                                          THEN seen[status] ELSE 0) + 1)
    IN  by_status[Len(all)]

\* by_status starts with the four buckets at 0; every lead adds one to
\* by_status[l.get("status", "New")], a key the dict gets when it has none.
CountByStatus(all) ==
    LET by_status[n \in 0..Len(all)] ==
            IF n = 0 THEN [ s \in Statuses |-> 0 ]
            ELSE LET status == all[n].status
                     seen == by_status[n - 1]
                 IN  Set(seen, status :> (IF status \in DOMAIN seen
                                          THEN seen[status] ELSE 0) + 1)
    IN  by_status[Len(all)]

\* The lines of the report that count leads and log entries; the status line
\* prints the four buckets.
SummaryLines(total, by_status, conversion, overdue) ==
    [ total |-> total,
      by_status |-> [ s \in Statuses |-> by_status[s] ],
      conversion |-> conversion,
      overdue |-> Len(overdue) ]

daily_summary_job ==
    LET all == get_documents(leads, NoFilter, SUMMARY_LEAD_LIMIT)
        total == Len(all)
        by_status == CountByStatus(all)
        logs == get_documents(lead_log,
                              [from_status |-> "New", to_status |-> "In progress"],
                              SUMMARY_LOG_LIMIT)
        conversion == Len(logs)
        overdue == SelectSeq(all, LAMBDA l : l.status = "New"
                                             /\ l.timestamp <= now - DAY_MINUTES)
        message == SummaryLines(total, by_status, conversion, overdue)
    IN  /\ sent' = << Set(send_whatsapp_message(DEFAULT_ADMIN, "daily_summary", 0),
                          [report |-> message]) >>
        /\ errors' = requests_post.logged
        /\ resp' = Outcome("daily_summary_job", 0, "ok", 0, None, EmptyData, NoMessage)
        /\ UNCHANGED <<envAssigned, envAdmin, down, cycle, tasks, now, leads, lead_log, ops,
                       sheet, log_sheet, normIn, normOut>>

(* ---------------------------- specification ---------------------------- *)

Next ==
    \/ Tick
    \/ \E payload \in WebhookPayloads : ingest_webhook(payload)
    \/ \E payload \in WebhookPayloads : ingest_facebook(payload)
    \/ \E payload \in ManualPayloads : ingest_manual(payload)
    \/ \E payload \in ManualPayloads : create_lead(payload)
    \/ \E msg \in Messages : ingest_whatsapp(msg)
    \/ \E lead_id \in 1..(MaxLeads + 1), status \in RequestStatuses :
           update_status(lead_id, status)
    \/ follow_up_checks /\ UNCHANGED cycle
    \/ daily_summary_job

Spec == Init /\ [][Next]_vars

(* ---------------------- external services failing ---------------------- *)

\* Any of the external services may be failing when the service starts;
\* nothing is configured in the environment.
InitOutage ==
    /\ envAssigned = None
    /\ envAdmin = None
    /\ now = 0
    /\ leads = <<>>
    /\ lead_log = <<>>
    /\ sent = <<>>
    /\ resp = NoOutcome
    /\ ops = 0
    /\ normIn = EmptyData
    /\ normOut = <<>>
    /\ down \in SUBSET Services
    /\ sheet = <<>>
    /\ log_sheet = <<>>
    /\ errors = {}
    /\ cycle = 0
    /\ tasks = NoTasks

\* An external service starts failing, or recovers, between two operations.
Outage ==
    /\ \E service \in Services :
          down' = IF service \in down THEN down \ {service} ELSE down \cup {service}
    /\ UNCHANGED <<envAssigned, envAdmin, cycle, tasks, now, leads, lead_log, sent, resp, ops,
                   sheet, log_sheet, errors, normIn, normOut>>

\* The statuses asked for while services fail: handled, closed, and one
\* that is not a status.
OutageStatuses == {"In progress", "Won", "Archived"}

NextOutage ==
    \/ Outage
    \/ Tick
    \/ \E payload \in ManualPayloads : ingest_manual(payload)
    \/ \E lead_id \in 1..MaxLeads, status \in OutageStatuses :
           update_status(lead_id, status)
    \/ follow_up_checks /\ UNCHANGED cycle
    \/ daily_summary_job

SpecOutage == InitOutage /\ [][NextOutage]_vars

(* --------------------- scans over more than a batch -------------------- *)

\* The limit of the scan's batch, scaled down from 5000 so that the leads
\* with status New can outnumber it.
BatchLimit == 1

\* One deployment, nothing configured in the environment.
InitBatch ==
    /\ envAssigned = None
    /\ envAdmin = None
    /\ now = 0
    /\ leads = <<>>
    /\ lead_log = <<>>
    /\ sent = <<>>
    /\ resp = NoOutcome
    /\ ops = 0
    /\ normIn = EmptyData
    /\ normOut = <<>>
    /\ down = {}
    /\ sheet = <<>>
    /\ log_sheet = <<>>
    /\ errors = {}
    /\ cycle = 0
    /\ tasks = NoTasks

\* Time passes, short of the 24-hour threshold.
TickBatch == Tick /\ now' < DAY_MINUTES

\* scheduler.add_job(follow_up_checks, "interval", minutes=5): one more run
\* of the scan, over a batch of BatchLimit leads.
ScanCycle == ScanBatch(BatchLimit) /\ cycle' = 1 - cycle

NextBatch ==
    \/ TickBatch
    \/ \E payload \in WebhookPayloads : ingest_webhook(payload)
    \/ \E msg \in Messages : ingest_whatsapp(msg)
    \/ \E lead_id \in 1..MaxLeads, status \in Statuses : update_status(lead_id, status)
    \/ ScanCycle

\* The interval trigger keeps running the scan.
SpecBatch == InitBatch /\ [][NextBatch]_vars /\ WF_vars(ScanCycle)

(* ----------------- coroutines interleaved at their awaits -------------- *)

\* The statuses asked for by interleaved requests: two statuses, and one
\* that is not a status.
AsyncStatuses == {"In progress", "Won", "Archived"}

InitAsync ==
    /\ envAssigned = None
    /\ envAdmin = None
    /\ now = 0
    /\ leads = <<>>
    /\ lead_log = <<>>
    /\ sent = <<>>
    /\ resp = NoOutcome
    /\ ops = 0
    /\ normIn = EmptyData
    /\ normOut = <<>>
    /\ down = {}
    /\ sheet = <<>>
    /\ log_sheet = <<>>
    /\ errors = {}
    /\ cycle = 0
    /\ tasks = NoTasks

\* lead = await get_document("lead", {"_id": lead_id}); 404 if not lead;
\* prev = lead.get("status"). The coroutine is then suspended in
\* await update_document(...).
update_status_read(r, lead_id, status) ==
    LET lead == get_document(leads, [_id |-> lead_id])
    IN  /\ tasks.update[r].pc = "idle"
        /\ IF lead = <<>>
           THEN /\ resp' = Outcome("update_status", 404, "error", lead_id, status,
                                   EmptyData, NoMessage)
                /\ tasks' = tasks
           ELSE /\ tasks' = [ tasks EXCEPT !.update[r] =
                                UpdateTask("write", lead_id, status, lead[1].status, None) ]
                /\ resp' = resp
        /\ Handled
        /\ UNCHANGED <<envAssigned, envAdmin, down, cycle, now, leads, lead_log, sent,
                       sheet, log_sheet, errors, normIn, normOut>>

\* await update_document("lead", {"_id": lead_id}, {"status": payload.status})
\* is carried out by the store. The coroutine goes on to _log_status_change.
update_status_write(r) ==
    LET task == tasks.update[r]
    IN  /\ task.pc = "write"
        /\ leads' = update_document(leads, [_id |-> task.lead_id], [status |-> task.status])
        /\ tasks' = [ tasks EXCEPT !.update[r] =
                        UpdateTask("log", task.lead_id, task.status, task.prev,
                                   leads[task.lead_id].status) ]
        /\ UNCHANGED <<envAssigned, envAdmin, down, cycle, now, lead_log, sent, resp, ops,
                       sheet, log_sheet, errors, normIn, normOut>>

\* await _log_status_change(lead_id, prev, payload.status, payload.note):
\* LeadLog(...) is built, which raises for a status that is none of the
\* four, then create_document("lead_log", log) and _append_log(...).
update_status_log(r) ==
    LET task == tasks.update[r]
        row == _append_log
    IN  /\ task.pc = "log"
        /\ IF LeadLogValid(task.prev, task.status)
           THEN /\ Len(lead_log) < MaxLogs
                /\ lead_log' = create_document(lead_log,
                                   LeadLog(task.lead_id, task.prev, task.status, None))
                /\ log_sheet' = IF row.done
                                THEN Append(log_sheet,
                                            LogRow(task.lead_id, task.prev, task.status))
                                ELSE log_sheet
                /\ errors' = row.logged
                /\ resp' = Outcome("update_status", 200, "ok", task.lead_id, task.status,
                                   EmptyData, NoMessage)
           ELSE /\ lead_log' = lead_log
                /\ log_sheet' = log_sheet
                /\ errors' = {}
                /\ resp' = Outcome("update_status", 500, "error", task.lead_id, task.status,
                                   EmptyData, NoMessage)
        /\ tasks' = [ tasks EXCEPT !.update[r] =
                        UpdateTask("idle", task.lead_id, task.status, task.prev, task.stored) ]
        /\ UNCHANGED <<envAssigned, envAdmin, down, cycle, now, leads, sent, ops, sheet,
                       normIn, normOut>>

\* follow_up_checks up to its second loop: the batch is read, the first loop
\* sends its reminders, and the second loop selects, from the batch as it
\* was read, the leads that are a day old with status New.
follow_up_checks_read ==
    LET batch == Retrieved(FOLLOW_UP_LIMIT)
        messages == Reminders(batch)
    IN  /\ tasks.scan.pc = "idle"
        /\ sent' = messages
        /\ errors' = IF messages # <<>> THEN requests_post.logged ELSE {}
        /\ tasks' = [ tasks EXCEPT !.scan =
                        LET todo == SelectSeq(batch, DueDay)
                        IN  ScanTask(IF todo = <<>> THEN "idle" ELSE "second", todo) ]
        /\ resp' = Outcome("follow_up_checks", 0, "ok", 0, None, EmptyData, NoMessage)
        /\ UNCHANGED <<envAssigned, envAdmin, down, cycle, now, leads, lead_log, ops,
                       sheet, log_sheet, normIn, normOut>>

\* One iteration of the second loop: await _log_status_change(lead.get("_id"),
\* "New", "New", note) for the next selected lead, then its notification.
follow_up_checks_append ==
    LET todo == tasks.scan.todo
        lead == Head(todo)
        row == _append_log
    IN  /\ tasks.scan.pc = "second"
        /\ Len(lead_log) < MaxLogs
        /\ lead_log' = create_document(lead_log, LeadLog(lead._id, "New", "New", AUTO_NOTE))
        /\ log_sheet' = IF row.done THEN Append(log_sheet, LogRow(lead._id, "New", "New"))
                        ELSE log_sheet
        /\ sent' = Append(sent, send_whatsapp_message(ScanRecipient(lead),
                                                      "follow_up_24h", lead._id))
        /\ errors' = errors \cup row.logged \cup requests_post.logged
        /\ tasks' = [ tasks EXCEPT !.scan =
                        ScanTask(IF Tail(todo) = <<>> THEN "idle" ELSE "second", Tail(todo)) ]
        /\ UNCHANGED <<envAssigned, envAdmin, down, cycle, now, leads, resp, ops, sheet,
                       normIn, normOut>>

NextAsync ==
    \/ Tick
    \/ \E payload \in ManualPayloads : ingest_manual(payload)
    \/ \E r \in Requests, lead_id \in 1..MaxLeads, status \in AsyncStatuses :
           update_status_read(r, lead_id, status)
    \/ \E r \in Requests : update_status_write(r)
    \/ \E r \in Requests : update_status_log(r)
    \/ follow_up_checks_read
    \/ follow_up_checks_append

SpecAsync == InitAsync /\ [][NextAsync]_vars

(* ------------------- normalize_lead as a pure function ------------------ *)

\* Dicts handed to normalize_lead directly: every key missing, None, empty
\* or set, whatever status and reply time the dict carries.
NormInputs ==
    [ name : {Missing, None, "", "Ali"},
      phone : {Missing, None, "", "+60111"},
      description : {MissingText, <<"o","k">>},
      source : {Missing, "website"},
      timestamp : {NoTime, 10},
      status : {Missing, "Won"},
      assigned_sales_whatsapp : {Missing, None, "", "+60122"},
      last_sales_reply_at : {NoTime, 10} ]

InitNorm ==
    /\ envAssigned \in EnvAssignedValues
    /\ envAdmin \in EnvAdminValues
    /\ now \in Instants
    /\ leads = <<>>
    /\ lead_log = <<>>
    /\ sent = <<>>
    /\ resp = NoOutcome
    /\ ops = 0
    /\ normIn = EmptyData
    /\ normOut = <<>>
    /\ down = {}
    /\ sheet = <<>>
    /\ log_sheet = <<>>
    /\ errors = {}
    /\ cycle = 0
    /\ tasks = NoTasks

Normalize(data) ==
    /\ normOut = <<>>
    /\ normIn' = data
    /\ normOut' = << normalize_lead(data) >>
    /\ UNCHANGED <<envAssigned, envAdmin, down, cycle, tasks, now, leads, lead_log, sent, resp, ops,
                   sheet, log_sheet, errors>>

NextNorm == \E data \in NormInputs : Normalize(data)

SpecNorm == InitNorm /\ [][NextNorm]_vars

(* ------------------------------ properties ----------------------------- *)

\* The step is a request handled by `op`.
Handles(op) == ops' = ops + 1 /\ resp'.op = op

\* The step is a follow-up scan: no request is counted and no time passes.
Scans == ops' = ops /\ now' = now /\ resp'.op = "follow_up_checks"

\* The ids of the lead_log entries of a lead, oldest first.
EntriesOf(lead_id) == { k \in 1..Len(lead_log) : lead_log[k].lead_id = lead_id }

\* The collection after the step is the collection before it plus one document.
OneMore(before, after) ==
    /\ Len(after) = Len(before) + 1
    /\ \A i \in 1..Len(before) : after[i] = before[i]

\* C1: every status update that targets an existing lead and asks for one of
\* the four statuses appends exactly one lead_log entry for that lead, from
\* the status stored before the update to the requested status.
C1_UpdateAppendsOneEntry ==
    [][ ( /\ Handles("update_status")
          /\ (\E i \in 1..Len(leads) : leads[i]._id = resp'.lead_id)
          /\ resp'.status \in Statuses )
        => ( /\ OneMore(lead_log, lead_log')
             /\ lead_log'[Len(lead_log')].lead_id = resp'.lead_id
             /\ lead_log'[Len(lead_log')].from_status = leads[resp'.lead_id].status
             /\ lead_log'[Len(lead_log')].to_status = resp'.status ) ]_vars

\* C2: a status update whose lead_id resolves to no lead fails with NotFound,
\* appends no lead_log entry and leaves every stored lead unchanged.
C2_NotFoundChangesNothing ==
    [][ ( Handles("update_status") /\ ~(\E i \in 1..Len(leads) : leads[i]._id = resp'.lead_id) )
        => ( resp'.code = 404 /\ lead_log' = lead_log /\ leads' = leads ) ]_vars

\* A status update for an id that is not stored was answered, with a lead stored.
C2_Witness ==
    /\ resp.op = "update_status"
    /\ resp.code = 404
    /\ (\A i \in 1..Len(leads) : leads[i]._id # resp.lead_id)
    /\ Len(leads) > 0

\* C3: the status of every lead is the to_status of its most recent lead_log
\* entry, or New when it has none.
C3_StatusReplaysFromLog ==
    \A i \in 1..Len(leads) :
        leads[i].status =
            IF EntriesOf(i) = {} THEN "New"
            ELSE lead_log[CHOOSE k \in EntriesOf(i) : \A j \in EntriesOf(i) : j <= k].to_status

\* Some keyword occurs in the body when letter case is ignored.
HasKeywordIgnoringCase(body) ==
    \E n \in 1..Len(KEYWORDS) :
        \E at \in 0..(Len(body) - Len(KEYWORDS[n])) :
            \A j \in 1..Len(KEYWORDS[n]) : LowerChar(body[at + j]) = KEYWORDS[n][j]

\* C4: a WhatsApp message creates a lead exactly when its body holds a
\* keyword, whatever the letter case of the body; otherwise it is taken as a
\* handler reply.
C4_KeywordClassifies ==
    resp.op = "ingest_whatsapp" =>
        /\ resp.body \in {"lead", "ignored"}
        /\ resp.body = "lead" <=> HasKeywordIgnoringCase(resp.msg.message)

\* An upper-case body was classified as a new lead.
C4_Witness ==
    /\ resp.op = "ingest_whatsapp"
    /\ resp.body = "lead"
    /\ resp.msg.message = <<"P","A","I","P">>

C6_ReplyUpdatesMatches ==
    [][ ( Handles("ingest_whatsapp") /\ resp'.body = "ignored" )
        => ( /\ Len(leads') = Len(leads)
             /\ \A i \in 1..Len(leads) :
                    IF leads[i].assigned_sales_whatsapp = resp'.msg.from_number
                    THEN /\ leads'[i].last_sales_reply_at = resp'.msg.timestamp
                         /\ leads'[i].status = "In progress"
                    ELSE /\ leads'[i].last_sales_reply_at = leads[i].last_sales_reply_at
                         /\ leads'[i].status = leads[i].status ) ]_vars

\* A reply reached a lead that had been logged as Won: it is In progress now.
C6_Witness ==
    /\ resp.op = "ingest_whatsapp"
    /\ resp.body = "ignored"
    /\ \E i \in 1..Len(leads) :
          /\ leads[i].assigned_sales_whatsapp = resp.msg.from_number
          /\ leads[i].status = "In progress"
          /\ leads[i].last_sales_reply_at = resp.msg.timestamp
          /\ \E k \in EntriesOf(i) :
                /\ \A j \in EntriesOf(i) : j <= k
                /\ lead_log[k].to_status \in {"Won", "Lost"}

\* A value that was supplied: the key is there and holds no None.
Supplied(x) == x # Missing /\ x # None

\* C7: normalize_lead answers every dict: name is the supplied name or
\* "Unknown", phone the supplied phone or "" and never None, status is New
\* and no reply time is set, whatever status and reply time the dict carries.
C7_NormalizerTotal ==
    normOut # <<>> =>
        LET out == normOut[1]
        IN  /\ out.name \in {normIn.name, "Unknown"}
            /\ ~Supplied(normIn.name) => out.name = "Unknown"
            /\ ~Falsy(normIn.name) => out.name = normIn.name
            /\ out.phone # None /\ out.phone # Missing
            /\ out.phone = IF Supplied(normIn.phone) THEN normIn.phone ELSE ""
            /\ out.status = "New"
            /\ out.last_sales_reply_at = NoTime

\* A dict without a name, with a None phone, carrying a status and a reply
\* time of its own, was normalized.
C7_Witness ==
    /\ normOut # <<>>
    /\ normIn.name = Missing
    /\ normIn.phone = None
    /\ normIn.status = "Won"
    /\ normIn.last_sales_reply_at # NoTime
    /\ normOut[1].name = "Unknown"

\* The contact the resolution order yields: the payload's, else the channel
\* default, else the global default admin contact.
FirstPresent(data) ==
    IF ~Falsy(data.assigned_sales_whatsapp) THEN data.assigned_sales_whatsapp
    ELSE IF ~Falsy(envAssigned) THEN envAssigned
    ELSE IF envAdmin # None THEN envAdmin
    ELSE BuiltinAdmin

\* C8 as claimed: the contact is resolved in the order payload, channel
\* default, global default, and is non-empty for every input and every
\* setting of the two defaults.
C8_ResolvedNeverEmpty ==
    normOut # <<>> =>
        /\ normOut[1].assigned_sales_whatsapp = FirstPresent(normIn)
        /\ ~Falsy(normOut[1].assigned_sales_whatsapp)

\* C8 as amended: the contact is resolved in the order payload, channel
\* default, global default, and is non-empty unless DEFAULT_ADMIN_WHATSAPP is
\* set to the empty string.
C8_ResolvedWhenAdminSet ==
    normOut # <<>> =>
        /\ normOut[1].assigned_sales_whatsapp = FirstPresent(normIn)
        /\ envAdmin # "" => ~Falsy(normOut[1].assigned_sales_whatsapp)

\* With no contact in the payload and an empty channel default, the configured
\* global default was taken.
C8_Witness ==
    /\ normOut # <<>>
    /\ normIn.assigned_sales_whatsapp = None
    /\ envAssigned = ""
    /\ envAdmin = "+60199"
    /\ normOut[1].assigned_sales_whatsapp = "+60199"

IngestOps == {"ingest_webhook", "ingest_facebook", "ingest_manual", "create_lead",
              "ingest_whatsapp"}

\* C9: every ingestion that answers with a lead stored exactly one new lead
\* with status New and sent exactly one notification, to the lead's assigned
\* contact; a website lead has source website and, when the payload names no
\* handler, the configured default as its contact.
C9_OneLeadOneNotification ==
    [][ ( ops' = ops + 1 /\ resp'.op \in IngestOps /\ resp'.body = "lead" )
        => ( /\ OneMore(leads, leads')
             /\ resp'.lead_id = Len(leads')
             /\ LET lead == leads'[Len(leads')]
                IN  /\ lead.status = "New"
                    /\ Len(sent') = 1
                    /\ sent'[1].to = lead.assigned_sales_whatsapp
                    /\ sent'[1].lead_id = Len(leads')
                    /\ resp'.op = "ingest_webhook" =>
                          /\ lead.source = "website"
                          /\ resp'.data.assigned_sales_whatsapp = Missing =>
                                lead.assigned_sales_whatsapp =
                                    IF ~Falsy(envAssigned) THEN envAssigned
                                    ELSE DEFAULT_ADMIN ) ]_vars

\* The website sent Ali's lead without a handler: it went to the channel default.
C9_Witness ==
    /\ resp.op = "ingest_webhook"
    /\ resp.data.name = "Ali"
    /\ resp.data.assigned_sales_whatsapp = Missing
    /\ envAssigned = "+60100"
    /\ Len(leads) = resp.lead_id
    /\ leads[resp.lead_id].source = "website"
    /\ leads[resp.lead_id].status = "New"
    /\ sent = << [to |-> "+60100", kind |-> "new_lead", lead_id |-> resp.lead_id] >>

\* The scan sent the 15-minute reminder for the lead.
Reminded(messages, lead_id) ==
    \E k \in 1..Len(messages) :
        messages[k].kind = "reminder_15m" /\ messages[k].lead_id = lead_id

\* C10: in a scan, a lead with status New gets the 15-minute reminder exactly
\* when it is at least 15 minutes old and has no handler reply.
C10_ReminderAtFifteen ==
    [][ Scans =>
          \A i \in 1..Len(leads) :
              leads[i].status = "New" =>
                  ( Reminded(sent', i) <=>
                      ( /\ now - leads[i].timestamp >= FIFTEEN_MINUTES
                        /\ leads[i].last_sales_reply_at = NoTime ) ) ]_vars

\* A scan reminded about a New lead that is exactly 15 minutes old.
C10_Witness ==
    /\ resp.op = "follow_up_checks"
    /\ \E i \in 1..Len(leads) :
          /\ leads[i].status = "New"
          /\ leads[i].last_sales_reply_at = NoTime
          /\ now - leads[i].timestamp = FIFTEEN_MINUTES
          /\ Reminded(sent, i)

\* The lead_log entries a step appended for a lead.
AppendedFor(lead_id) ==
    { k \in (Len(lead_log) + 1)..Len(lead_log') : lead_log'[k].lead_id = lead_id }

\* The 24-hour notifications about a lead among the messages.
DayNoticesFor(messages, lead_id) ==
    { k \in 1..Len(messages) :
          messages[k].kind = "follow_up_24h" /\ messages[k].lead_id = lead_id }

\* The automatic follow-up entries of a lead in lead_log.
AutoEntriesOf(lead_id) ==
    { k \in EntriesOf(lead_id) :
          /\ lead_log[k].from_status = "New"
          /\ lead_log[k].to_status = "New"
          /\ lead_log[k].note = AUTO_NOTE }

\* C11: every scan appends exactly one New -> New lead_log entry with the
\* fixed note, and sends exactly one 24-hour notification, for each lead with
\* status New that is at least 24 hours old, and none for any other lead; it
\* changes no entry already logged, so the entries pile up scan after scan.
C11_DayEntryEveryScan ==
    [][ Scans =>
          /\ Len(lead_log') >= Len(lead_log)
          /\ \A k \in 1..Len(lead_log) : lead_log'[k] = lead_log[k]
          /\ \A i \in 1..Len(leads) :
                LET due == /\ leads[i].status = "New"
                           /\ now - leads[i].timestamp >= DAY_MINUTES
                IN  /\ Cardinality(AppendedFor(i)) = (IF due THEN 1 ELSE 0)
                    /\ Cardinality(DayNoticesFor(sent', i)) = (IF due THEN 1 ELSE 0)
                    /\ \A k \in AppendedFor(i) :
                          /\ lead_log'[k].from_status = "New"
                          /\ lead_log'[k].to_status = "New"
                          /\ lead_log'[k].note = AUTO_NOTE
          /\ \A k \in (Len(lead_log) + 1)..Len(lead_log') :
                lead_log'[k].lead_id \in 1..Len(leads) ]_vars

\* Two scans ran over a New lead that is exactly 24 hours old: it has two
\* automatic entries and the last scan sent its 24-hour notification.
C11_Witness ==
    /\ resp.op = "follow_up_checks"
    /\ \E i \in 1..Len(leads) :
          /\ leads[i].status = "New"
          /\ now - leads[i].timestamp = DAY_MINUTES
          /\ Cardinality(AutoEntriesOf(i)) = 2
          /\ Cardinality(DayNoticesFor(sent, i)) = 1

\* The scan before this state reminded about the lead.
RemindedLastScan(lead_id) ==
    resp.op = "follow_up_checks" /\ Reminded(sent, lead_id)

RemindersFor(messages, lead_id) ==
    { k \in 1..Len(messages) :
          messages[k].kind = "reminder_15m" /\ messages[k].lead_id = lead_id }

C15_IdentityFieldsFrozen ==
    [][ /\ Len(leads') >= Len(leads)
        /\ \A i \in 1..Len(leads) :
              /\ leads'[i]._id = leads[i]._id
              /\ leads'[i].assigned_sales_whatsapp = leads[i].assigned_sales_whatsapp
              /\ leads'[i].timestamp = leads[i].timestamp ]_vars

\* A handler replied, at a later time than the inquiry, about a lead whose
\* status had been updated before: the reply time is stored next to the
\* inquiry timestamp, which still is the time of the inquiry.
C15_Witness ==
    /\ resp.op = "ingest_whatsapp"
    /\ resp.body = "ignored"
    /\ Len(lead_log) > 0
    /\ \E i \in 1..Len(leads) :
          /\ leads[i].assigned_sales_whatsapp = resp.msg.from_number
          /\ leads[i].status = "In progress"
          /\ leads[i].last_sales_reply_at = resp.msg.timestamp
          /\ leads[i].timestamp < leads[i].last_sales_reply_at
          /\ EntriesOf(i) # {}

\* C16: a WhatsApp message handled as a handler reply creates no lead and
\* appends no lead_log entry, even when it changes the status of leads.
C16_ReplyAddsNothing ==
    [][ ( Handles("ingest_whatsapp") /\ resp'.body = "ignored" )
        => ( Len(leads') = Len(leads) /\ lead_log' = lead_log ) ]_vars

\* One reply moved both leads of a handler to In progress, with nothing logged.
C16_Witness ==
    /\ resp.op = "ingest_whatsapp"
    /\ resp.body = "ignored"
    /\ Len(leads) = 2
    /\ lead_log = <<>>
    /\ \A i \in 1..Len(leads) :
          /\ leads[i].assigned_sales_whatsapp = resp.msg.from_number
          /\ leads[i].status = "In progress"

\* C20: the status of every stored lead is one of the four statuses, and a
\* status update that changes a stored lead appends a lead_log entry,
\* whatever status string the request carries.
C20_StatusAlwaysValid ==
    /\ [](\A i \in 1..Len(leads) : leads[i].status \in Statuses)
    /\ [][ ( Handles("update_status") /\ leads' # leads )
           => OneMore(lead_log, lead_log') ]_vars

\* The step is a run of the daily summary.
Summarises == ops' = ops /\ now' = now /\ resp'.op = "daily_summary_job"

C14_FailuresSwallowed ==
    [][ /\ ( (\E op \in IngestOps : Handles(op)) /\ resp'.body # "ignored" )
           => ( /\ resp'.code = 200
                /\ OneMore(leads, leads')
                /\ resp'.lead_id = Len(leads')
                /\ lead_log' = lead_log )
        /\ ( /\ Handles("update_status")
             /\ resp'.lead_id \in 1..Len(leads)
             /\ LeadLogValid(leads[resp'.lead_id].status, resp'.status) )
           => ( /\ resp'.code = 200
                /\ leads'[resp'.lead_id].status = resp'.status
                /\ OneMore(lead_log, lead_log')
                /\ lead_log'[Len(lead_log')].lead_id = resp'.lead_id
                /\ lead_log'[Len(lead_log')].to_status = resp'.status )
        /\ Len(leads') >= Len(leads)
        /\ Len(lead_log') >= Len(lead_log)
        /\ \A k \in 1..Len(lead_log) : lead_log'[k] = lead_log[k] ]_vars

\* A status update answered 200 with the log worksheet failing: the entry is
\* in lead_log and not in the worksheet; the lead itself had been stored with
\* the spreadsheet and the WhatsApp API failing, and is not in the spreadsheet.
C14_Witness ==
    /\ resp.op = "update_status"
    /\ resp.code = 200
    /\ errors = {"log_sheet"}
    /\ Len(leads) = 1
    /\ leads[1].status = resp.status
    /\ Len(lead_log) = 1
    /\ lead_log[1].to_status = resp.status
    /\ log_sheet = <<>>
    /\ sheet = <<>>

\* The lead is stored with status New, no handler reply, at least 15 minutes old.
AwaitsReminder(i) ==
    /\ i \in 1..Len(leads)
    /\ leads[i].status = "New"
    /\ leads[i].last_sales_reply_at = NoTime
    /\ now - leads[i].timestamp >= FIFTEEN_MINUTES

\* The position of the lead among the leads with status New, in store order.
RankAmongNew(i) ==
    Cardinality({ j \in 1..i : leads[j].status = "New" })

\* C17 as stated: under recurring scans, every lead that stays New with no
\* handler reply is eventually reminded once it is 15 minutes old, however
\* many leads have status New.
C17_EveryLeadReminded ==
    \A i \in 1..MaxLeads :
        AwaitsReminder(i) ~> (RemindedLastScan(i) \/ ~AwaitsReminder(i))

\* C17 amended: under recurring scans, a lead that stays New with no handler
\* reply, and stays among the first leads with status New that fill one
\* batch of the scan, is eventually reminded once it is 15 minutes old.
C17_RemindedWithinBatch ==
    \A i \in 1..MaxLeads :
        (AwaitsReminder(i) /\ RankAmongNew(i) <= BatchLimit)
            ~> (RemindedLastScan(i) \/ ~(AwaitsReminder(i) /\ RankAmongNew(i) <= BatchLimit))

\* Two leads wait for their reminder and the batch holds one: the scan
\* reminded about the first and not about the second.
C17_Witness ==
    /\ resp.op = "follow_up_checks"
    /\ Len(leads) = 2
    /\ AwaitsReminder(1)
    /\ AwaitsReminder(2)
    /\ Reminded(sent, 1)
    /\ ~Reminded(sent, 2)
    /\ cycle = 1

\* The lead_log entries a step appended with the note of the follow-up scan.
AutoAppended ==
    { k \in (Len(lead_log) + 1)..Len(lead_log') : lead_log'[k].note = AUTO_NOTE }

\* C18: whenever the scan appends a New -> New entry for a lead and sends its
\* 24-hour notification, the stored status of that lead is New at that
\* moment, however the scan's awaits interleave with status updates.
C18_AppendsOnlyWhileNew ==
    [][ \A k \in AutoAppended : leads[lead_log'[k].lead_id].status = "New" ]_vars

\* The step is update_status appending its lead_log entry for request r.
LogsUpdate(r) ==
    /\ tasks.update[r].pc = "log"
    /\ tasks'.update[r].pc = "idle"
    /\ Len(lead_log') = Len(lead_log) + 1

\* The entries update_status made for a lead, oldest first.
UpdateEntriesOf(lead_id) ==
    { k \in EntriesOf(lead_id) : lead_log[k].note # AUTO_NOTE }

\* C19: when status updates of one lead interleave at their awaits, each
\* entry an update appends has as from_status the status its own write
\* replaced, and so the entries the updates made for a lead form a chain:
\* the from_status of each is the to_status of the one before it.
C19_UpdatesFormChain ==
    /\ [][ \A r \in Requests :
              LogsUpdate(r) =>
                  lead_log'[Len(lead_log')].from_status = tasks.update[r].stored ]_vars
    /\ [](\A i \in 1..Len(leads) :
             \A k \in UpdateEntriesOf(i) :
                 \A j \in UpdateEntriesOf(i) :
                     (j < k /\ ~\E m \in UpdateEntriesOf(i) : j < m /\ m < k)
                         => lead_log[k].from_status = lead_log[j].to_status)

====
